---------------------------- MODULE Spec2Model ----------------------------
(***************************************************************************)
(* A model of generateIFCmodels.py: the CSV schema loader                  *)
(* (import_as_dict), the data resolver (find_value_by_guid), the type      *)
(* coercion (convert_value_type), the five property builders and the       *)
(* property set assembler (main).                                          *)
(*                                                                         *)
(* Python values are tagged records: None, str, int, float, bool, dict     *)
(* and list.  A str is a sequence of tokens (a token is one character, or  *)
(* one atomic word such as an identifier), so that split(";") and the      *)
(* numeric parsers are computed, not assumed.  A dict is the sequence of   *)
(* its entries in insertion order, with distinct keys.                     *)
(***************************************************************************)
EXTENDS Integers, Sequences, FiniteSets, TLC

VARIABLES
    \* import_as_dict
    csv_rows,        \* the rows csv.DictReader yields, in file order
    row_idx,         \* index of the next row the loader reads
    lca_dict,        \* the loader's result so far (an ordered dict)
    load_state,      \* "idle" | "loading" | "returned" | an exception name
    \* find_value_by_guid
    data,            \* the nested data source searched
    guid,            \* the identifier searched for
    return_key,      \* the key whose value is returned
    found_value,     \* the value the top-level call returned
    resolver_state,  \* "idle" | "call" | "returned"
    \* main and the builders
    generate_demo,   \* demo mode (TRUE) or data mode (FALSE)
    property_sets,   \* schema: ordered dict of property sets
    product_data,    \* the data source of the run
    ifc_model,       \* the entities of the model, by id (index)
    object_psets,    \* ids of the property sets attached to constr_object
    pc,              \* position of main: [phase, set, prop]
    raised,          \* "" or the name of the exception that ended the run
    printed,         \* the "Unsupported IFCType" lines printed so far
    \* one call of add_simpleproperty
    call             \* its arguments, its state and the entity it returned

loaderVars == <<csv_rows, row_idx, lca_dict, load_state>>
resolverVars == <<data, guid, return_key, found_value, resolver_state>>
buildVars == <<generate_demo, property_sets, product_data, ifc_model,
               object_psets, pc, raised, printed>>
callVars == <<call>>
vars == <<loaderVars, resolverVars, buildVars, callVars>>

-----------------------------------------------------------------------------
(* Bounds of the model *)

MaxText == 3      \* tokens of a raw text value (one builder call)
MaxRows == 4      \* CSV rows per file (loader)
MaxDepth == 2     \* nesting depth of a data source (resolver)
MaxWidth == 2     \* entries of a mapping / elements of a sequence (resolver)
MaxProps == 3     \* property entries of a schema, over all its sets (main)

-----------------------------------------------------------------------------
(* Python values *)

None == [k |-> "None"]
Str(t) == [k |-> "str", s |-> t]
Int_(n) == [k |-> "int", n |-> n]
Float_(n) == [k |-> "float", n |-> n]
Bool_(b) == [k |-> "bool", b |-> b]
Dict(items) == [k |-> "dict", items |-> items]
List(items) == [k |-> "list", items |-> items]
Entry(key, val) == [key |-> key, val |-> val]

\* Python truthiness (the `if value:` tests of the source)
Truthy(v) ==
    CASE v.k = "None" -> FALSE
      [] v.k = "str" -> v.s # <<>>
      [] v.k = "int" -> v.n # 0
      [] v.k = "float" -> v.n # 0
      [] v.k = "bool" -> v.b
      [] v.k = "dict" -> v.items # <<>>
      [] v.k = "list" -> v.items # <<>>

\* dict.get(key, None)
DictGet(d, key) ==
    IF \E i \in 1..Len(d.items) : d.items[i].key = key
    THEN d.items[CHOOSE i \in 1..Len(d.items) : d.items[i].key = key].val
    ELSE None

SeqsUpTo(S, n) == UNION {[1..m -> S] : m \in 0..n}

Last(s) == s[Len(s)]

-----------------------------------------------------------------------------
(* find_value_by_guid *)

RECURSIVE find_value_by_guid(_, _, _)
RECURSIVE find_in_dict(_, _, _, _)
RECURSIVE find_in_list(_, _, _, _)

\* the `for key, value in data.items()` loop, from entry i on
find_in_dict(d, i, g, rk) ==
    IF i > Len(d.items) THEN None
    ELSE LET e == d.items[i] IN
         IF e.key = "guid" /\ e.val = g THEN DictGet(d, rk)
         ELSE LET f == find_value_by_guid(e.val, g, rk) IN
              IF f # None THEN f ELSE find_in_dict(d, i + 1, g, rk)

\* the `for item in data` loop, from element i on
find_in_list(l, i, g, rk) ==
    IF i > Len(l.items) THEN None
    ELSE LET f == find_value_by_guid(l.items[i], g, rk) IN
         IF f # None THEN f ELSE find_in_list(l, i + 1, g, rk)

find_value_by_guid(d, g, rk) ==
    IF d.k = "dict" THEN find_in_dict(d, 1, g, rk)
    ELSE IF d.k = "list" THEN find_in_list(d, 1, g, rk)
    ELSE None

-----------------------------------------------------------------------------
(* The resolver applied to every bounded data source *)

Scalars == {None, Str(<<"g1">>), Int_(5)}
Keys == {"guid", "value", "c"}

Injective(s) == \A i, j \in 1..Len(s) : i # j => s[i] # s[j]

RECURSIVE Trees(_)
Trees(d) ==
    IF d = 0 THEN Scalars
    ELSE LET sub == Trees(d - 1) IN
         sub
         \cup {List(s) : s \in SeqsUpTo(sub, MaxWidth)}
         \cup UNION {{Dict([i \in 1..Len(ks) |-> Entry(ks[i], vs[i])]) :
                         vs \in [1..Len(ks) -> sub]} :
                     ks \in {q \in SeqsUpTo(Keys, MaxWidth) : Injective(q)}}

ResolverIdle ==
    /\ data = None /\ guid = None /\ return_key = "" /\ found_value = None
    /\ resolver_state = "idle"

LoaderIdle ==
    /\ csv_rows = <<>> /\ row_idx = 0 /\ lca_dict = Dict(<<>>)
    /\ load_state = "idle"

BuildIdle ==
    /\ generate_demo = FALSE /\ property_sets = <<>> /\ product_data = None
    /\ ifc_model = <<>> /\ object_psets = <<>>
    /\ pc = [phase |-> "idle", set |-> 0, prop |-> 0, pset |-> 0]
    /\ raised = ""
    /\ printed = <<>>

CallIdle == call = [state |-> "idle"]

SubTrees == Trees(MaxDepth - 1)
KeySeqs == {q \in SeqsUpTo(Keys, MaxWidth) : Injective(q)}

\* every data source of depth at most MaxDepth: a tree of Trees(MaxDepth)
InitResolver ==
    /\ \/ data \in SubTrees
       \/ \E s \in SeqsUpTo(SubTrees, MaxWidth) : data = List(s)
       \/ \E ks \in KeySeqs : \E vs \in [1..Len(ks) -> SubTrees] :
             data = Dict([i \in 1..Len(ks) |-> Entry(ks[i], vs[i])])
    /\ guid = Str(<<"g1">>)
    /\ return_key = "value"
    /\ found_value = None
    /\ resolver_state = "call"
    /\ LoaderIdle /\ BuildIdle /\ CallIdle

Resolve ==
    /\ resolver_state = "call"
    /\ found_value' = find_value_by_guid(data, guid, return_key)
    /\ resolver_state' = "returned"
    /\ UNCHANGED <<data, guid, return_key, loaderVars, buildVars, callVars>>

NextResolver == Resolve

SpecResolver == InitResolver /\ [][NextResolver]_vars

-----------------------------------------------------------------------------
(* import_as_dict *)

\* One CSV row as csv.DictReader yields it: the block-name cell (the first
\* column) and the other cells; "" is an empty cell.
SetNameCells == {"", "A", "B"}
DescriptionCells == {"", "d"}
PropertyNameCells == {"", "p"}
RowPool == [SetName : SetNameCells, Description : DescriptionCells,
            PropertyName : PropertyNameCells]

\* {k: v for k, v in row.items() if v and k not in [set_name_col]}
RowDetails(row) ==
    Dict((IF row.Description # ""
          THEN <<Entry("Description", Str(<<row.Description>>))>> ELSE <<>>)
         \o (IF row.PropertyName # ""
             THEN <<Entry("PropertyName", Str(<<row.PropertyName>>))>>
             ELSE <<>>))

HasKey(d, key) == \E i \in 1..Len(d.items) : d.items[i].key = key
KeyIndex(d, key) == CHOOSE i \in 1..Len(d.items) : d.items[i].key = key

\* d[key] = val: an existing key keeps its place, a new key goes last
DictSet(d, key, val) ==
    IF HasKey(d, key)
    THEN Dict([d.items EXCEPT ![KeyIndex(d, key)] = Entry(key, val)])
    ELSE Dict(Append(d.items, Entry(key, val)))

\* a property row that is dropped whatever the dict holds
property_row_dropped(d, property_details) == [err |-> "", dict |-> d]

\* lines 42-46: a row without block name, appended to the block that is
\* last in the dict; a row without any cell is passed over
property_row(d, property_details) ==
    IF property_details.items = <<>> THEN [err |-> "", dict |-> d]
    ELSE IF d.items = <<>> THEN [err |-> "IndexError", dict |-> d]
    ELSE LET last_pset_name == Last(d.items).key
             block == DictGet(d, last_pset_name)
             withList == IF HasKey(block, "Properties") THEN block
                         ELSE DictSet(block, "Properties", List(<<>>))
             props == DictGet(withList, "Properties")
         IN [err |-> "",
             dict |-> DictSet(d, last_pset_name,
                         DictSet(withList, "Properties",
                             List(Append(props.items, property_details))))]

\* the body of `for row in csv_reader`, applied to the dict built so far;
\* the result is the new dict, or the exception raised
import_row(d, row) ==
    IF row.SetName # ""
    THEN [err |-> "", dict |-> DictSet(d, row.SetName, RowDetails(row))]
    ELSE property_row(d, RowDetails(row))

InitLoader ==
    /\ csv_rows \in SeqsUpTo(RowPool, MaxRows)
    /\ row_idx = 1
    /\ lca_dict = Dict(<<>>)
    /\ load_state = "loading"
    /\ ResolverIdle /\ BuildIdle /\ CallIdle

ReadRow ==
    /\ load_state = "loading"
    /\ row_idx <= Len(csv_rows)
    /\ LET r == import_row(lca_dict, csv_rows[row_idx]) IN
         /\ lca_dict' = r.dict
         /\ load_state' = IF r.err = "" THEN "loading" ELSE r.err
    /\ row_idx' = row_idx + 1
    /\ UNCHANGED <<csv_rows, resolverVars, buildVars, callVars>>

ReturnDict ==
    /\ load_state = "loading"
    /\ row_idx > Len(csv_rows)
    /\ load_state' = "returned"
    /\ UNCHANGED <<csv_rows, row_idx, lca_dict, resolverVars, buildVars, callVars>>

NextLoader == ReadRow \/ ReturnDict

SpecLoader == InitLoader /\ [][NextLoader]_vars

-----------------------------------------------------------------------------
(* Text: str.split, str.lower, int(), float(), str() *)

Digits == <<"0", "1", "2", "3", "4", "5", "6", "7", "8", "9">>
IsDigit(c) == \E d \in 1..Len(Digits) : Digits[d] = c
DigitValue(c) == (CHOOSE d \in 1..Len(Digits) : Digits[d] = c) - 1

\* The texts of the model are made of digits, letters, ";" and atomic
\* words; of these int() and float() accept exactly the non-empty digit
\* strings.
IsNumeral(t) == t # <<>> /\ \A i \in 1..Len(t) : IsDigit(t[i])

RECURSIVE ParseNat(_)
ParseNat(t) ==
    IF t = <<>> THEN 0
    ELSE 10 * ParseNat(SubSeq(t, 1, Len(t) - 1)) + DigitValue(t[Len(t)])

RECURSIVE FormatNat(_)
FormatNat(n) ==
    IF n < 10 THEN <<Digits[n + 1]>>
    ELSE FormatNat(n \div 10) \o <<Digits[(n % 10) + 1]>>

\* t.split(";")
RECURSIVE split(_)
split(t) ==
    IF \E i \in 1..Len(t) : t[i] = ";"
    THEN LET i == CHOOSE j \in 1..Len(t) :
                      t[j] = ";" /\ \A h \in 1..(j - 1) : t[h] # ";"
         IN <<SubSeq(t, 1, i - 1)>> \o split(SubSeq(t, i + 1, Len(t)))
    ELSE <<t>>

UpperToLower == [T |-> "t", R |-> "r", U |-> "u", E |-> "e", Y |-> "y", S |-> "s"]
lower(t) == [i \in 1..Len(t) |->
                IF t[i] \in DOMAIN UpperToLower THEN UpperToLower[t[i]] ELSE t[i]]

TrueTexts == {<<"t", "r", "u", "e">>, <<"1">>, <<"t">>, <<"y", "e", "s">>}

\* str(value) for the values the builders pass to it
to_str(v) ==
    CASE v.k = "str" -> v.s
      [] v.k = "int" -> FormatNat(v.n)
      [] v.k = "float" -> FormatNat(v.n) \o <<".", "0">>
      [] v.k = "bool" -> IF v.b THEN <<"True">> ELSE <<"False">>
      [] v.k = "None" -> <<"None">>
      [] OTHER -> <<"repr">>

-----------------------------------------------------------------------------
(* convert_value_type *)

\* ifcopenshell.util.attribute.get_primitive_type of the declared types used
PrimitiveType == [IfcBoolean |-> "boolean", IfcInteger |-> "integer",
                  IfcReal |-> "float", IfcLabel |-> "string"]

Ok(v) == [err |-> "", val |-> v]
Raise(e) == [err |-> e, val |-> None]

\* int(x)
py_int(v) ==
    CASE v.k = "str" -> IF IsNumeral(v.s) THEN Ok(Int_(ParseNat(v.s)))
                        ELSE Raise("ValueError")
      [] v.k = "int" -> Ok(v)
      [] v.k = "float" -> Ok(Int_(v.n))
      [] v.k = "bool" -> Ok(Int_(IF v.b THEN 1 ELSE 0))
      [] OTHER -> Raise("TypeError")

\* float(x)
py_float(v) ==
    CASE v.k = "str" -> IF IsNumeral(v.s) THEN Ok(Float_(ParseNat(v.s)))
                        ELSE Raise("ValueError")
      [] v.k = "int" -> Ok(Float_(v.n))
      [] v.k = "float" -> Ok(v)
      [] v.k = "bool" -> Ok(Float_(IF v.b THEN 1 ELSE 0))
      [] OTHER -> Raise("TypeError")

\* lambda x: x.lower() in ["true", "1", "t", "yes"]
py_bool(v) ==
    IF v.k = "str" THEN Ok(Bool_(lower(v.s) \in TrueTexts))
    ELSE Raise("AttributeError")

EmptyDefault(python_type_name) ==
    CASE python_type_name = "boolean" -> Bool_(FALSE)
      [] python_type_name = "integer" -> Int_(0)
      [] python_type_name = "float" -> Float_(0)
      [] OTHER -> Str(<<"NaN">>)

convert_value_type(data_type, value) ==
    LET python_type_name == PrimitiveType[data_type] IN
    IF Truthy(value)
    THEN CASE python_type_name = "boolean" -> py_bool(value)
           [] python_type_name = "integer" -> py_int(value)
           [] python_type_name = "float" -> py_float(value)
           [] OTHER -> Ok(Str(to_str(value)))
    ELSE Ok(EmptyDefault(python_type_name))

-----------------------------------------------------------------------------
(* The schema dictionaries import_as_dict returns.  A field that is "" is  *)
(* a key the loader left out (it keeps only non-empty cells).              *)

Prop(name, ifctype, datatype, id, enumref) ==
    [PropertyName |-> name, IFCType |-> ifctype, DataType |-> datatype,
     Unit |-> "unitless", ISO22057GUID |-> id,
     EnumerationReference |-> enumref, Specification |-> "spec"]

Has(details, field) == details[field] # ""

\* penums: enumeration name -> its value definitions
penums ==
    [E1 |-> [Properties |->
               <<[EnumerationValues |-> <<"a">>, DataType |-> "IfcLabel"],
                 [EnumerationValues |-> <<"5">>, DataType |-> "IfcInteger"]>>],
     E2 |-> [Properties |->
               <<[EnumerationValues |-> <<"b">>, DataType |-> "IfcLabel"]>>]]

\* complex_props: complex property name -> its constituents
complex_props ==
    [CP1 |-> [Properties |->
                <<Prop("Part", "IfcPropertySingleValue", "IfcInteger", "g4", ""),
                  Prop("Kind", "IfcPropertyEnumeratedValue", "", "g5", "E1")>>],
     CP2 |-> [Properties |->
                <<Prop("Range", "IfcPropertyBoundedValue", "IfcReal", "g4", "")>>]]

-----------------------------------------------------------------------------
(* The model's entities.  ifc_model[id] is the entity with that id; typed  *)
(* values (IfcLabel, IfcInteger ...) are values, not entities.  0 is None. *)

\* F applied to a value computed once (a local variable of the source)
With(v, F(_)) == F(v)

\* ifc_model.create_entity(data_type, value) for a value type
TypedValue(data_type, value) == [type |-> data_type, wrappedValue |-> value]

\* ifc_model.by_type(t): the ids of the entities of that type
by_type(ents, t) == {id \in 1..Len(ents) : ents[id].type = t}

\* next(...): the first of a set of ids, 0 (None) when there is none
FirstId(ids) == IF ids = {} THEN 0 ELSE CHOOSE id \in ids : \A h \in ids : id <= h

\* result of a builder: the model, the returned entity (0: None) and the
\* exception that left it ("": none)
R(ents, ret, err) == [ents |-> ents, ret |-> ret, err |-> err]

\* lines 221-226: pset.HasProperties gets the property appended
attach(ents, pset, prop) ==
    [ents EXCEPT ![pset].HasProperties = Append(@, prop)]

\* a property that joins the set's list even when it is nested
new_property_attaching(ents, pset, entity, nested) ==
    R(attach(Append(ents, entity), pset, Len(ents) + 1), Len(ents) + 1, "")

\* a property created as the next entity, attached to the set unless nested
new_property(ents, pset, entity, nested) ==
    R(IF nested THEN Append(ents, entity)
      ELSE attach(Append(ents, entity), pset, Len(ents) + 1),
      Len(ents) + 1, "")

\* a raw value taken whole, and one placeholder when there is none
raw_unsplit(raw_value, placeholder) ==
    [err |-> "", vals |-> IF Truthy(raw_value) THEN <<raw_value>> ELSE <<None>>]

\* the raw value split on ";", or the placeholder when there is none
raw_pieces(raw_value, placeholder) ==
    IF Truthy(raw_value)
    THEN IF raw_value.k = "str"
         THEN With(split(raw_value.s), LAMBDA parts :
                  [err |-> "", vals |-> [i \in 1..Len(parts) |-> Str(parts[i])]])
         ELSE [err |-> "AttributeError", vals |-> <<>>]
    ELSE [err |-> "", vals |-> placeholder]

add_propertysinglevalue(ents, pset, prop_details, unit, raw_value, complex_prop_single) ==
    With(convert_value_type(prop_details.DataType, raw_value), LAMBDA conv :
        IF conv.err \notin {"", "ValueError"} THEN R(ents, 0, conv.err)
        ELSE new_property(ents, pset,
                 [type |-> "IfcPropertySingleValue",
                  Name |-> prop_details.PropertyName,
                  NominalValue |->
                      IF conv.err = ""
                      THEN TypedValue(prop_details.DataType, conv.val)
                      ELSE TypedValue("IfcLabel", Str(to_str(raw_value))),
                  Unit |-> unit,
                  Specification |-> ""],
                 complex_prop_single))

\* the first exception among conversion results, "" if none
FirstError(convs) ==
    IF \E i \in 1..Len(convs) : convs[i].err # ""
    THEN convs[CHOOSE i \in 1..Len(convs) :
                  convs[i].err # "" /\ \A h \in 1..(i - 1) : convs[h].err = ""].err
    ELSE ""

\* lines 253-256: every piece converted, or the first exception
list_values(value_type, pieces) ==
    With([i \in 1..Len(pieces) |-> convert_value_type(value_type, pieces[i])],
         LAMBDA convs :
            [err |-> FirstError(convs),
             vals |-> [i \in 1..Len(convs) |->
                          TypedValue(value_type, convs[i].val)]])

add_propertylistvalue(ents, pset, prop_details, raw_value, unit, complex_prop_list) ==
    With(raw_pieces(raw_value, <<None, None>>), LAMBDA pieces :
        IF pieces.err # "" THEN R(ents, 0, pieces.err)
        ELSE With(list_values(prop_details.DataType, pieces.vals),
                  LAMBDA values :
            IF values.err # "" THEN R(ents, 0, values.err)
            ELSE new_property(ents, pset,
                     [type |-> "IfcPropertyListValue",
                      Name |-> prop_details.PropertyName,
                      ListValues |-> values.vals,
                      Unit |-> unit,
                      Specification |-> ""],
                     complex_prop_list)))

add_propertyenumeration(ents, penum_name, unit) ==
    IF penum_name \notin DOMAIN penums THEN R(ents, 0, "KeyError")
    ELSE With(penums[penum_name].Properties, LAMBDA defs :
         With([i \in 1..Len(defs) |->
                  convert_value_type(defs[i].DataType,
                                     Str(defs[i].EnumerationValues))],
              LAMBDA convs :
            IF FirstError(convs) # "" THEN R(ents, 0, FirstError(convs))
            ELSE R(Append(ents, [type |-> "IfcPropertyEnumeration",
                                 Name |-> penum_name,
                                 EnumerationValues |->
                                     [i \in 1..Len(defs) |->
                                         TypedValue(defs[i].DataType,
                                                    convs[i].val)],
                                 Unit |-> unit]),
                   Len(ents) + 1, "")))

\* "" stands for the None the source returns
get_data_type_for_enum_value(penum_name, enumeration_value) ==
    With(penums[penum_name].Properties, LAMBDA defs :
    With({i \in 1..Len(defs) :
             Str(defs[i].EnumerationValues) = enumeration_value},
         LAMBDA hits : IF hits = {} THEN "" ELSE defs[FirstId(hits)].DataType))

\* lines 339-353: the typed value of one piece; none (<<>>) when its data
\* type is not found
enumeration_value_of(penum_name, piece) ==
    With(penums[penum_name].Properties[1], LAMBDA first :
    With(IF piece = None THEN first.DataType
         ELSE get_data_type_for_enum_value(penum_name, piece),
         LAMBDA data_type :
            IF data_type = "" THEN [err |-> "", vals |-> <<>>]
            ELSE With(convert_value_type(data_type,
                          IF piece = None THEN Str(first.EnumerationValues)
                          ELSE piece),
                      LAMBDA conv :
                         [err |-> conv.err,
                          vals |-> <<TypedValue(data_type, conv.val)>>])))

\* lines 337-353: `for value in raw_value`, from the i-th piece on
RECURSIVE enumeration_values_of(_, _, _)
enumeration_values_of(penum_name, raw_value, i) ==
    IF i > Len(raw_value) THEN [err |-> "", vals |-> <<>>]
    ELSE With(enumeration_value_of(penum_name, raw_value[i]), LAMBDA one :
            IF one.err # "" THEN one
            ELSE With(enumeration_values_of(penum_name, raw_value, i + 1),
                      LAMBDA rest :
                         [err |-> rest.err, vals |-> one.vals \o rest.vals]))

\* an enumeration created without a look at the model's enumerations
enumeration_always_created(ents, penum_name, unit) ==
    add_propertyenumeration(ents, penum_name, unit)

\* lines 333-335: the enumeration of that name, found in the model or created
enumeration_for(ents, penum_name, unit) ==
    With(FirstId({id \in by_type(ents, "IfcPropertyEnumeration") :
                     ents[id].Name = penum_name}),
         LAMBDA existing_enum :
            IF existing_enum # 0 THEN R(ents, existing_enum, "")
            ELSE add_propertyenumeration(ents, penum_name, unit))

add_propertyenumeratedvalue(ents, pset, prop_details, raw_value, unit, complex_prop_enum) ==
    With(raw_pieces(raw_value, <<None>>), LAMBDA pieces :
        IF pieces.err # "" THEN R(ents, 0, pieces.err)
        ELSE With(enumeration_for(ents, prop_details.EnumerationReference, unit),
                  LAMBDA enum :
            IF enum.err # "" THEN enum
            ELSE With(enumeration_values_of(prop_details.EnumerationReference,
                                            pieces.vals, 1),
                      LAMBDA values :
                IF values.err # "" THEN R(enum.ents, 0, values.err)
                ELSE new_property(enum.ents, pset,
                         [type |-> "IfcPropertyEnumeratedValue",
                          Name |-> prop_details.PropertyName,
                          EnumerationValues |-> values.vals,
                          EnumerationReference |-> enum.ret,
                          Specification |-> ""],
                         complex_prop_enum))))

\* lines 383-385: the raw value of a property
raw_value_of(prop_details, demo) ==
    IF ~demo /\ Has(prop_details, "ISO22057GUID")
    THEN find_value_by_guid(product_data, Str(<<prop_details.ISO22057GUID>>),
                            "value")
    ELSE None

\* lines 399-417: the builder of the declared shape
dispatch_simple(ents, pset, prop_details, raw_value, unit, complex_prop) ==
    CASE prop_details.IFCType = "IfcPropertySingleValue" ->
            add_propertysinglevalue(ents, pset, prop_details, unit, raw_value,
                                    complex_prop)
      [] prop_details.IFCType = "IfcPropertyListValue" ->
            add_propertylistvalue(ents, pset, prop_details, raw_value, unit,
                                  complex_prop)
      [] prop_details.IFCType = "IfcPropertyEnumeratedValue" ->
            add_propertyenumeratedvalue(ents, pset, prop_details, raw_value,
                                        unit, complex_prop)
      [] OTHER -> R(ents, 0, "")

\* a property built whether or not a value was resolved for it
simple_built_unresolved(ents, pset, prop_details, demo, complex_prop) ==
    dispatch_simple(ents, pset, prop_details, raw_value_of(prop_details, demo),
                    0, complex_prop)

add_simpleproperty(ents, pset, prop_details, demo, complex_prop) ==
    With(raw_value_of(prop_details, demo), LAMBDA raw_value :
        IF demo \/ Truthy(raw_value)
        THEN dispatch_simple(ents, pset, prop_details, raw_value, 0,
                             complex_prop)
        ELSE R(ents, 0, ""))

\* simple_prop.Specification = ...
set_specification(ents, prop, text) ==
    [ents EXCEPT ![prop].Specification = text]

\* lines 440-448: one constituent, annotated when built
complex_member(ents, pset, complex_prop_details, demo) ==
    With(add_simpleproperty(ents, pset, complex_prop_details, demo, TRUE),
         LAMBDA simple_prop :
            IF simple_prop.err = "" /\ simple_prop.ret # 0
            THEN R(set_specification(simple_prop.ents, simple_prop.ret,
                                     complex_prop_details.Specification),
                   simple_prop.ret, "")
            ELSE simple_prop)

\* lines 439-448: the constituents from the i-th on
RECURSIVE complex_members(_, _, _, _, _)
complex_members(ents, pset, members, i, demo) ==
    IF i > Len(members) THEN [ents |-> ents, properties |-> <<>>, err |-> ""]
    ELSE With(complex_member(ents, pset, members[i], demo), LAMBDA one :
            IF one.err # ""
            THEN [ents |-> one.ents, properties |-> <<>>, err |-> one.err]
            ELSE With(complex_members(one.ents, pset, members, i + 1, demo),
                      LAMBDA rest :
                         [ents |-> rest.ents,
                          properties |-> (IF one.ret # 0 THEN <<one.ret>>
                                          ELSE <<>>) \o rest.properties,
                          err |-> rest.err]))

\* a complex property created whatever its constituents came to
complex_created_empty(ents, pset, complex_prop_name, demo) ==
    IF complex_prop_name \notin DOMAIN complex_props
    THEN R(ents, 0, "KeyError")
    ELSE With(complex_members(ents, pset,
                  complex_props[complex_prop_name].Properties, 1, demo),
              LAMBDA built :
            IF built.err # "" THEN R(built.ents, 0, built.err)
            ELSE R(Append(built.ents, [type |-> "IfcComplexProperty",
                                       Name |-> complex_prop_name,
                                       UsageName |-> complex_prop_name,
                                       HasProperties |-> built.properties]),
                   Len(built.ents) + 1, ""))

\* lines 438-454: the complex property built from its constituents
new_complexproperty(ents, pset, complex_prop_name, demo) ==
    IF complex_prop_name \notin DOMAIN complex_props
    THEN R(ents, 0, "KeyError")
    ELSE With(complex_members(ents, pset,
                  complex_props[complex_prop_name].Properties, 1, demo),
              LAMBDA built :
            IF built.err # "" \/ built.properties = <<>>
            THEN R(built.ents, 0, built.err)
            ELSE R(Append(built.ents, [type |-> "IfcComplexProperty",
                                       Name |-> complex_prop_name,
                                       UsageName |-> complex_prop_name,
                                       HasProperties |-> built.properties]),
                   Len(built.ents) + 1, ""))

add_complexproperty(ents, pset, prop_details, demo) ==
    With(FirstId({id \in by_type(ents, "IfcComplexProperty") :
                     ents[id].Name = prop_details.PropertyName}),
         LAMBDA existing :
            With(IF existing # 0 THEN R(ents, existing, "")
                 ELSE new_complexproperty(ents, pset, prop_details.PropertyName,
                                          demo),
                 LAMBDA compelex_prop :
                    IF compelex_prop.err # "" \/ compelex_prop.ret = 0
                    THEN R(compelex_prop.ents, 0, compelex_prop.err)
                    ELSE R(attach(compelex_prop.ents, pset, compelex_prop.ret),
                           0, "")))

-----------------------------------------------------------------------------
(* Tabular reference values: add_columns, add_rows, add_table *)

\* tablecolumns: column code -> its definition, in file order
tablecolumns ==
    Dict(<<Entry("A1", [ISO22057GUID |-> "cA1", ReferenceTo |-> "P1",
                        Description |-> "product stage"]),
           Entry("A2", [ISO22057GUID |-> "cA2", ReferenceTo |-> "P1",
                        Description |-> ""]),
           Entry("D", [ISO22057GUID |-> "cD", ReferenceTo |-> "",
                       Description |-> ""])>>)

\* tablerows: table (indicator group) name -> its rows, in file order
tablerows ==
    Dict(<<Entry("T1", [Properties |->
                    <<[RowName |-> "GWP", Unit |-> "kg", DataType |-> "IfcReal",
                       ISO22057GUID |-> "r1"],
                      [RowName |-> "ODP", Unit |-> "kg", DataType |-> "IfcReal",
                       ISO22057GUID |-> "r2"]>>]),
           Entry("T2", [Properties |->
                    <<[RowName |-> "PERE", Unit |-> "MJ", DataType |-> "IfcInteger",
                       ISO22057GUID |-> "r3"]>>])>>)

\* a column code is a text of one word; any other text is no key
HasColumn(col_name) == Len(col_name) = 1 /\ HasKey(tablecolumns, col_name[1])
ColumnDef(col_name) == DictGet(tablecolumns, col_name[1])

RefKey(target) == <<"IfcBuildingElementProxyType", "HasPropertySets", target>>

\* the last of a set of ids: a later entry of a dict comprehension replaces
\* an earlier one with the same key
LastId(ids) == CHOOSE id \in ids : \A h \in ids : h <= id

\* line 578: {column.Name: column for column in by_type("IfcTableColumn")}
ExistingColumns(ents) ==
    With(by_type(ents, "IfcTableColumn"), LAMBDA ids :
        [name \in {ents[id].Name : id \in ids} |->
            LastId({id \in ids : ents[id].Name = name})])

EntRefKey(e) == <<e.TypeIdentifier, e.AttributeIdentifier, e.InstanceName>>

\* line 581: {(type, attribute, instance): ref for ref in by_type("IfcReference")}
ExistingReferences(ents) ==
    With(by_type(ents, "IfcReference"), LAMBDA ids :
        [key \in {EntRefKey(ents[id]) : id \in ids} |->
            LastId({id \in ids : EntRefKey(ents[id]) = key})])

\* lines 477-488: reuse or create one of the two fixed columns
fixed_column(ents, existing_columns, name) ==
    IF <<name>> \in DOMAIN existing_columns
    THEN R(ents, existing_columns[<<name>>], "")
    ELSE R(Append(ents, [type |-> "IfcTableColumn", Identifier |-> <<name>>,
                         Name |-> <<name>>, Description |-> "",
                         ReferencePath |-> 0]),
           Len(ents) + 1, "")

\* lines 491-506: the cross-reference of a column, reused or created
column_reference(ents, def, existing_references) ==
    IF ~Has(def, "ReferenceTo") THEN R(ents, 0, "")
    ELSE IF RefKey(def.ReferenceTo) \in DOMAIN existing_references
    THEN R(ents, existing_references[RefKey(def.ReferenceTo)], "")
    ELSE R(Append(ents, [type |-> "IfcReference",
                         TypeIdentifier |-> "IfcBuildingElementProxyType",
                         AttributeIdentifier |-> "HasPropertySets",
                         InstanceName |-> def.ReferenceTo]),
           Len(ents) + 1, "")

\* lines 491-516: one pass of `for col_name in applicable_columns`
named_column(ents, existing_columns, col_name, existing_references) ==
    IF ~HasColumn(col_name) THEN R(ents, 0, "KeyError")
    ELSE With(column_reference(ents, ColumnDef(col_name), existing_references),
              LAMBDA reference :
            IF col_name \in DOMAIN existing_columns
            THEN R(reference.ents, existing_columns[col_name], "")
            ELSE R(Append(reference.ents,
                          [type |-> "IfcTableColumn",
                           Identifier |-> col_name, Name |-> col_name,
                           Description |-> ColumnDef(col_name).Description,
                           ReferencePath |-> reference.ret]),
                   Len(reference.ents) + 1, ""))

RECURSIVE named_columns(_, _, _, _, _)
named_columns(ents, existing_columns, applicable_columns, existing_references, i) ==
    IF i > Len(applicable_columns)
    THEN [ents |-> ents, columns |-> <<>>, err |-> ""]
    ELSE With(named_column(ents, existing_columns, applicable_columns[i],
                           existing_references),
              LAMBDA column :
            IF column.err # ""
            THEN [ents |-> column.ents, columns |-> <<>>, err |-> column.err]
            ELSE With(named_columns(column.ents, existing_columns,
                          applicable_columns, existing_references, i + 1),
                      LAMBDA rest :
                         [ents |-> rest.ents,
                          columns |-> <<column.ret>> \o rest.columns,
                          err |-> rest.err]))

add_columns(ents, existing_columns, applicable_columns, existing_references) ==
    With(fixed_column(ents, existing_columns, "Indicator"), LAMBDA indicator :
    With(fixed_column(indicator.ents, existing_columns, "Unit"), LAMBDA unit :
    With(named_columns(unit.ents, existing_columns, applicable_columns,
                       existing_references, 1),
         LAMBDA named :
            [ents |-> named.ents,
             columns |-> <<indicator.ret, unit.ret>> \o named.columns,
             err |-> named.err])))

\* a cell that takes the type's default where no value was found
cell_defaulted(row, raw_value) ==
    With(convert_value_type(row.DataType, raw_value), LAMBDA conv :
        IF conv.err = "" THEN Ok(TypedValue(row.DataType, conv.val))
        ELSE IF conv.err = "ValueError"
        THEN Ok(TypedValue("IfcLabel", Str(to_str(raw_value))))
        ELSE Raise(conv.err))

\* lines 550-559: the cell made of a raw value
cell_of(row, raw_value) ==
    IF raw_value = None THEN Ok(TypedValue("IfcLabel", Str(<<"NaN">>)))
    ELSE With(convert_value_type(row.DataType, raw_value), LAMBDA conv :
            IF conv.err = "" THEN Ok(TypedValue(row.DataType, conv.val))
            ELSE IF conv.err = "ValueError"
            THEN Ok(TypedValue("IfcLabel", Str(to_str(raw_value))))
            ELSE Raise(conv.err))

\* lines 543-560: the cell of one applicable column
row_cell(row, indicator_values, col_name, demo) ==
    IF demo THEN cell_of(row, Int_(0))
    ELSE IF ~HasColumn(col_name) THEN Raise("KeyError")
    ELSE IF ~Has(ColumnDef(col_name), "ISO22057GUID") THEN Raise("KeyError")
    ELSE cell_of(row, find_value_by_guid(indicator_values,
                          Str(<<ColumnDef(col_name).ISO22057GUID>>), "value"))

\* lines 531-536
indicator_values_of(row, demo) ==
    IF demo THEN Bool_(TRUE)
    ELSE find_value_by_guid(product_data, Str(<<row.ISO22057GUID>>), "values")

\* lines 537-564: the row of one schema row; ret = 0 when it is skipped
table_row(ents, row, applicable_columns, demo) ==
    With(indicator_values_of(row, demo), LAMBDA indicator_values :
        IF ~Truthy(indicator_values) THEN R(ents, 0, "")
        ELSE With([c \in 1..Len(applicable_columns) |->
                      row_cell(row, indicator_values, applicable_columns[c],
                               demo)],
                  LAMBDA cells :
                IF FirstError(cells) # "" THEN R(ents, 0, FirstError(cells))
                ELSE R(Append(ents, [type |-> "IfcTableRow",
                           RowCells |->
                               <<TypedValue("IfcLabel", Str(<<row.RowName>>)),
                                 TypedValue("IfcLabel", Str(<<row.Unit>>))>>
                               \o [c \in 1..Len(cells) |-> cells[c].val]]),
                       Len(ents) + 1, "")))

\* lines 530-564: the rows from the i-th schema row on
RECURSIVE add_rows_from(_, _, _, _, _)
add_rows_from(ents, table_rows, applicable_columns, demo, i) ==
    IF i > Len(table_rows) THEN [ents |-> ents, rows |-> <<>>, err |-> ""]
    ELSE With(table_row(ents, table_rows[i], applicable_columns, demo),
              LAMBDA one :
            IF one.err # ""
            THEN [ents |-> one.ents, rows |-> <<>>, err |-> one.err]
            ELSE With(add_rows_from(one.ents, table_rows, applicable_columns,
                                    demo, i + 1),
                      LAMBDA rest :
                         [ents |-> rest.ents,
                          rows |-> (IF one.ret # 0 THEN <<one.ret>> ELSE <<>>)
                                   \o rest.rows,
                          err |-> rest.err]))

add_rows(ents, prop_details, applicable_columns, demo) ==
    add_rows_from(ents, prop_details.Properties, applicable_columns, demo, 1)

EPDSet == "LCAPset_EPDMethodologicalSpecification"
IndicatorSet == "LCAPset_EnvironmentalIndicators"

\* lines 592-599: the identifier of the InformationModule property, None
\* when the set has no such property
informationmodule_guid(props) ==
    With(FirstId({i \in 1..Len(props) :
                     props[i].PropertyName = "InformationModule"}),
         LAMBDA first :
            IF first = 0 THEN Ok(None)
            ELSE IF ~Has(props[first], "ISO22057GUID") THEN Raise("KeyError")
            ELSE Ok(Str(<<props[first].ISO22057GUID>>)))

\* lines 600-603: the resolved value split and normalized
split_columns(value) ==
    IF value.k # "str" THEN [err |-> "AttributeError", cols |-> <<>>]
    ELSE With(split(value.s), LAMBDA parts :
            [err |-> "",
             cols |-> [i \in 1..Len(parts) |->
                          IF parts[i] = <<"D1">> THEN <<"D">> ELSE parts[i]]])

\* lines 585-603: the applicable columns, or the exception raised
applicable_columns_of(demo) ==
    IF demo
    THEN [err |-> "",
          cols |-> [i \in 1..Len(tablecolumns.items) |->
                       <<tablecolumns.items[i].key>>]]
    ELSE IF ~HasKey(property_sets, EPDSet)
    THEN [err |-> "KeyError", cols |-> <<>>]
    ELSE IF DictGet(property_sets, EPDSet).Properties = <<>>
    THEN [err |-> "KeyError", cols |-> <<>>]
    ELSE With(informationmodule_guid(DictGet(property_sets, EPDSet).Properties),
              LAMBDA informationmodule_prop_guid :
            IF informationmodule_prop_guid.err # ""
            THEN [err |-> informationmodule_prop_guid.err, cols |-> <<>>]
            ELSE split_columns(find_value_by_guid(product_data,
                                   informationmodule_prop_guid.val, "value")))

\* a table created whatever rows it came to
table_created_empty(ents, prop_details, prop_name, applicable_columns, demo) ==
    With(add_columns(ents, ExistingColumns(ents), applicable_columns,
                     ExistingReferences(ents)),
         LAMBDA columns :
            IF columns.err # "" THEN R(columns.ents, 0, columns.err)
            ELSE With(add_rows(columns.ents, prop_details, applicable_columns,
                               demo),
                      LAMBDA rows :
                    IF rows.err # "" THEN R(rows.ents, 0, rows.err)
                    ELSE R(Append(rows.ents, [type |-> "IfcTable",
                                              Name |-> <<prop_name, "Table">>,
                                              Columns |-> columns.columns,
                                              Rows |-> rows.rows]),
                           Len(rows.ents) + 1, "")))

\* lines 605-620: columns, rows and the table
table_of(ents, prop_details, prop_name, applicable_columns, demo) ==
    With(add_columns(ents, ExistingColumns(ents), applicable_columns,
                     ExistingReferences(ents)),
         LAMBDA columns :
            IF columns.err # "" THEN R(columns.ents, 0, columns.err)
            ELSE With(add_rows(columns.ents, prop_details, applicable_columns,
                               demo),
                      LAMBDA rows :
                    IF rows.err # "" \/ rows.rows = <<>>
                    THEN R(rows.ents, 0, rows.err)
                    ELSE R(Append(rows.ents, [type |-> "IfcTable",
                                              Name |-> <<prop_name, "Table">>,
                                              Columns |-> columns.columns,
                                              Rows |-> rows.rows]),
                           Len(rows.ents) + 1, "")))

add_table(ents, prop_details, prop_name, unit, demo) ==
    With(applicable_columns_of(demo), LAMBDA applicable :
        IF applicable.err # "" THEN R(ents, 0, applicable.err)
        ELSE table_of(ents, prop_details, prop_name, applicable.cols, demo))

add_propertyreferencevalue(ents, pset, prop_details, prop_name, unit, demo) ==
    With(add_table(ents, prop_details, prop_name, unit, demo), LAMBDA table :
        IF table.err # "" \/ table.ret = 0 THEN table
        ELSE new_property(table.ents, pset,
                 [type |-> "IfcPropertyReferenceValue",
                  Name |-> prop_name,
                  UsageName |-> <<prop_name, "Results">>,
                  PropertyReference |-> table.ret],
                 FALSE))

\* lines 658-664: the tables from the i-th on
RECURSIVE indicators_from(_, _, _, _)
indicators_from(ents, pset, demo, i) ==
    IF i > Len(tablerows.items) THEN R(ents, 0, "")
    ELSE With(add_propertyreferencevalue(ents, pset, tablerows.items[i].val,
                  tablerows.items[i].key, 0, demo),
              LAMBDA ref :
                 IF ref.err # "" THEN ref
                 ELSE indicators_from(ref.ents, pset, demo, i + 1))

add_environmental_indicators(ents, pset, demo) ==
    indicators_from(ents, pset, demo, 1)

-----------------------------------------------------------------------------
(* main: the property set assembler *)

PSingle == Prop("Density", "IfcPropertySingleValue", "IfcInteger", "g1", "")
PList == Prop("Layers", "IfcPropertyListValue", "IfcInteger", "g2", "")
PEnum == Prop("Scenario", "IfcPropertyEnumeratedValue", "", "g3", "E1")
PEnum2 == Prop("Phase", "IfcPropertyEnumeratedValue", "", "g3", "E2")
PComplex == Prop("CP1", "IfcComplexProperty", "", "", "")
PComplex2 == Prop("CP2", "IfcComplexProperty", "", "", "")
PUnsupported == Prop("Span", "IfcPropertyBoundedValue", "IfcReal", "g1", "")
PInformationModule ==
    Prop("InformationModule", "IfcPropertySingleValue", "IfcLabel", "gIM", "")

PropPool == {PSingle, PList, PEnum, PEnum2, PComplex, PComplex2, PUnsupported,
             PInformationModule}

\* one block of property_sets; no property rows means no "Properties" key
PsetDetails(props) == [Description |-> "", Properties |-> props]

\* entries of the data source
Datum(id, value) == Dict(<<Entry("guid", Str(<<id>>)), Entry("value", value)>>)
Indicator(id, values) ==
    Dict(<<Entry("guid", Str(<<id>>)), Entry("values", values)>>)
Absent == [k |-> "absent"]
Present(entries) == SelectSeq(entries, LAMBDA e : e # Absent)
DatumOrAbsent(id, value) == IF value = Absent THEN Absent ELSE Datum(id, value)
IndicatorOrAbsent(id, values) ==
    IF values = Absent THEN Absent ELSE Indicator(id, values)
ProductData(props, indicators) ==
    Dict(<<Entry("properties", List(Present(props))),
           Entry("indicators", List(Present(indicators)))>>)

\* a data source that resolves every identifier of the schema
DataFull ==
    ProductData(<<Datum("g1", Str(<<"5">>)),
                  Datum("g2", Str(<<"5", ";", "5">>)),
                  Datum("g3", Str(<<"a">>)),
                  Datum("g4", Str(<<"5">>)),
                  Datum("g5", Str(<<"a", ";", "5">>)),
                  Datum("gIM", Str(<<"A1", ";", "D1">>))>>,
                <<Indicator("r1", List(<<Datum("cA1", Int_(5)),
                                         Datum("cD", Str(<<"x">>))>>)),
                  Indicator("r3", List(<<Datum("cD", Str(<<"5">>))>>))>>)

\* the values a data source may hold for each identifier (Absent: none)
G1Values == {Absent, Str(<<"5">>), Str(<<"x">>), Int_(5), Int_(0)}
G2Values == {Absent, Str(<<"5", ";", "5">>), Str(<<"5", ";", "x">>), Int_(5)}
G3Values == {Absent, Str(<<"a">>), Str(<<"a", ";", "z">>)}
G4Values == {Absent, Str(<<"5">>)}
GIMValues == {Absent, Str(<<"A1", ";", "D1">>), Str(<<"D1", ";", "D">>),
              Str(<<"A1", ";", "ZZ">>)}
R1Values == {Absent, List(<<>>), List(<<Datum("cD", Int_(5))>>),
             List(<<Datum("cA1", Int_(0))>>),
             List(<<Datum("cA1", Str(<<"x">>)), Datum("cD", Str(<<"5">>))>>)}

\* a schema that uses every builder
SchemaFull ==
    Dict(<<Entry(EPDSet, PsetDetails(<<PInformationModule, PSingle, PEnum,
                                       PComplex, PList>>)),
           Entry(IndicatorSet, PsetDetails(<<>>))>>)

\* line 684: generate_basic_ifc_model has created the target object
Bootstrap == <<[type |-> "IfcBuilding", Name |-> "My Demo Building"]>>

InitBuild ==
    /\ \/ \* any small schema, in demo mode or with a complete data source
          /\ \E p1 \in SeqsUpTo(PropPool, MaxProps) :
               \/ property_sets = Dict(<<Entry(EPDSet, PsetDetails(p1))>>)
               \/ \E p2 \in SeqsUpTo(PropPool, MaxProps - Len(p1)) :
                    property_sets = Dict(<<Entry(EPDSet, PsetDetails(p1)),
                                           Entry(IndicatorSet, PsetDetails(p2))>>)
          /\ \/ generate_demo = TRUE /\ product_data = Dict(<<>>)
             \/ generate_demo = FALSE /\ product_data = DataFull
       \/ \* the full schema in data mode, with any data source
          /\ property_sets = SchemaFull
          /\ generate_demo = FALSE
          /\ \E v1 \in G1Values, v2 \in G2Values, v3 \in G3Values,
                v4 \in G4Values, vIM \in GIMValues, vR1 \in R1Values :
               product_data =
                   ProductData(<<DatumOrAbsent("g1", v1), DatumOrAbsent("g2", v2),
                                 DatumOrAbsent("g3", v3), DatumOrAbsent("g4", v4),
                                 DatumOrAbsent("g5", v3),
                                 DatumOrAbsent("gIM", vIM)>>,
                               <<IndicatorOrAbsent("r1", vR1)>>)
    /\ ifc_model = Bootstrap
    /\ object_psets = <<>>
    /\ pc = [phase |-> "open", set |-> 1, prop |-> 0, pset |-> 0]
    /\ raised = ""
    /\ printed = <<>>
    /\ LoaderIdle /\ ResolverIdle /\ CallIdle

CurrentSet == property_sets.items[pc.set]

\* lines 686-691: pset.add_pset attaches a new, empty set to the object
OpenSet ==
    /\ pc.phase = "open"
    /\ pc.set <= Len(property_sets.items)
    /\ ifc_model' = Append(ifc_model, [type |-> "IfcPropertySet",
                                       Name |-> CurrentSet.key,
                                       Description |-> CurrentSet.val.Description,
                                       HasProperties |-> <<>>])
    /\ object_psets' = Append(object_psets, Len(ifc_model) + 1)
    /\ pc' = [phase |-> "props", set |-> pc.set, prop |-> 1,
              pset |-> Len(ifc_model) + 1]
    /\ UNCHANGED <<generate_demo, property_sets, product_data, raised,
                   printed, loaderVars, resolverVars, callVars>>

\* lines 697-701: a simple property, with its specification when built
simple_with_specification(ents, pset, prop_details, demo) ==
    With(add_simpleproperty(ents, pset, prop_details, demo, FALSE), LAMBDA prop :
        IF prop.err = "" /\ prop.ret # 0 /\ Has(prop_details, "Specification")
        THEN R(set_specification(prop.ents, prop.ret,
                                 prop_details.Specification),
               prop.ret, "")
        ELSE prop)

\* lines 386 and 415-416: the line add_simpleproperty prints for a shape it
\* does not know; the dispatch is reached only in demo mode or with a value
unsupported_report(prop_details, demo) ==
    IF /\ demo \/ Truthy(raw_value_of(prop_details, demo))
       /\ prop_details.IFCType \notin {"IfcPropertySingleValue",
                                        "IfcPropertyListValue",
                                        "IfcPropertyEnumeratedValue"}
    THEN <<<<"Unsupported IFCType: ", prop_details.IFCType>>>>
    ELSE <<>>

\* lines 439-445: the lines printed while the constituents are built, up to
\* the one that raises
RECURSIVE member_reports(_, _, _, _, _)
member_reports(ents, pset, members, i, demo) ==
    IF i > Len(members) THEN <<>>
    ELSE With(complex_member(ents, pset, members[i], demo), LAMBDA one :
            unsupported_report(members[i], demo)
            \o (IF one.err # "" THEN <<>>
                ELSE member_reports(one.ents, pset, members, i + 1, demo)))

\* lines 433-445 and 694-699: the lines one pass of main's loop prints
build_reports(ents, pset, prop_details, demo) ==
    IF prop_details.IFCType # "IfcComplexProperty"
    THEN unsupported_report(prop_details, demo)
    ELSE IF \E id \in by_type(ents, "IfcComplexProperty") :
                ents[id].Name = prop_details.PropertyName
    THEN <<>>
    ELSE IF prop_details.PropertyName \notin DOMAIN complex_props THEN <<>>
    ELSE member_reports(ents, pset,
             complex_props[prop_details.PropertyName].Properties, 1, demo)

\* lines 694-701: the complex or the simple builder
build_property(ents, pset, prop_details, demo) ==
    IF prop_details.IFCType = "IfcComplexProperty"
    THEN add_complexproperty(ents, pset, prop_details, demo)
    ELSE simple_with_specification(ents, pset, prop_details, demo)

\* lines 693-701: one pass of `for prop_details in pset_details["Properties"]`
BuildProperty ==
    /\ pc.phase = "props"
    /\ pc.prop <= Len(CurrentSet.val.Properties)
    /\ \E built \in {build_property(ifc_model, pc.pset,
                           CurrentSet.val.Properties[pc.prop], generate_demo)} :
          /\ ifc_model' = built.ents
          /\ raised' = built.err
          /\ pc' = IF built.err = "" THEN [pc EXCEPT !.prop = pc.prop + 1]
                   ELSE [pc EXCEPT !.phase = "aborted"]
    /\ printed' = printed \o build_reports(ifc_model, pc.pset,
                                  CurrentSet.val.Properties[pc.prop], generate_demo)
    /\ UNCHANGED <<generate_demo, property_sets, product_data, object_psets,
                   loaderVars, resolverVars, callVars>>

\* lines 702-703
AddEnvironmentalIndicators ==
    /\ pc.phase = "props"
    /\ pc.prop > Len(CurrentSet.val.Properties)
    /\ CurrentSet.key = IndicatorSet
    /\ \E built \in {add_environmental_indicators(ifc_model, pc.pset,
                                                   generate_demo)} :
          /\ ifc_model' = built.ents
          /\ raised' = built.err
          /\ pc' = IF built.err = "" THEN [pc EXCEPT !.phase = "finalize"]
                   ELSE [pc EXCEPT !.phase = "aborted"]
    /\ UNCHANGED <<generate_demo, property_sets, product_data, object_psets,
                   printed, loaderVars, resolverVars, callVars>>

\* an empty set left where it is
pset_kept(ents, psets, pset) == [ents |-> ents, psets |-> psets]

\* pset.remove_pset: the set leaves the object and the model
remove_pset(ents, psets, pset) ==
    [ents |-> [ents EXCEPT ![pset] = [type |-> "(removed)"]],
     psets |-> SelectSeq(psets, LAMBDA id : id # pset)]

\* lines 704-707, and on to the next set
FinalizeSet ==
    /\ \/ pc.phase = "finalize"
       \/ /\ pc.phase = "props"
          /\ pc.prop > Len(CurrentSet.val.Properties)
          /\ CurrentSet.key # IndicatorSet
    /\ IF ifc_model[pc.pset].HasProperties = <<>>
       THEN \E removed \in {remove_pset(ifc_model, object_psets, pc.pset)} :
               /\ ifc_model' = removed.ents
               /\ object_psets' = removed.psets
       ELSE UNCHANGED <<ifc_model, object_psets>>
    /\ pc' = [phase |-> "open", set |-> pc.set + 1, prop |-> 0, pset |-> 0]
    /\ UNCHANGED <<generate_demo, property_sets, product_data, raised,
                   printed, loaderVars, resolverVars, callVars>>

\* lines 709-714: ifc_model.write
WriteFile ==
    /\ pc.phase = "open"
    /\ pc.set > Len(property_sets.items)
    /\ pc' = [pc EXCEPT !.phase = "done"]
    /\ UNCHANGED <<generate_demo, property_sets, product_data, ifc_model,
                   object_psets, raised, printed, loaderVars, resolverVars,
                   callVars>>

Next ==
    \/ OpenSet
    \/ BuildProperty
    \/ AddEnvironmentalIndicators
    \/ FinalizeSet
    \/ WriteFile

Spec == InitBuild /\ [][Next]_vars

-----------------------------------------------------------------------------
(* One call of add_simpleproperty, on a model with one empty property set *)

TextTokens == {"5", "x", ";", "t"}

\* what the data source may hold for the identifier: nothing, null, a
\* number, a boolean or a text
RawValues ==
    {Absent, None, Int_(0), Int_(5), Bool_(FALSE), Bool_(TRUE)}
    \cup {Str(t) : t \in SeqsUpTo(TextTokens, MaxText)}

DataTypes == {"IfcBoolean", "IfcInteger", "IfcReal", "IfcLabel"}

\* schema entries of every shape and type, with and without an identifier
CallProps ==
    {Prop("P", shape, data_type, id, "") :
        shape \in {"IfcPropertySingleValue", "IfcPropertyListValue",
                   "IfcPropertyBoundedValue"},
        data_type \in DataTypes, id \in {"g1", ""}}
    \cup {Prop("P", "IfcPropertyEnumeratedValue", "", id, "E1") :
             id \in {"g1", ""}}

\* the model the call starts from: the target object and one empty set
CallModel ==
    Append(Bootstrap, [type |-> "IfcPropertySet", Name |-> "S",
                       Description |-> "", HasProperties |-> <<>>])
CallPset == Len(CallModel)

InitSimple ==
    /\ \E details \in CallProps, nested \in BOOLEAN :
          call = [state |-> "call", prop_details |-> details,
                  complex_prop |-> nested, ret |-> 0]
    /\ \/ generate_demo = TRUE /\ product_data = Dict(<<>>)
       \/ /\ generate_demo = FALSE
          /\ \E v \in RawValues :
                product_data = ProductData(<<DatumOrAbsent("g1", v)>>, <<>>)
    /\ property_sets = <<>>
    /\ ifc_model = CallModel
    /\ object_psets = <<CallPset>>
    /\ pc = [phase |-> "idle", set |-> 0, prop |-> 0, pset |-> 0]
    /\ raised = ""
    /\ printed = <<>>
    /\ LoaderIdle /\ ResolverIdle

\* add_simpleproperty(pset, prop_details, generate_demo, complex_prop)
CallSimple ==
    /\ call.state = "call"
    /\ \E built \in {add_simpleproperty(ifc_model, CallPset, call.prop_details,
                                         generate_demo, call.complex_prop)} :
          /\ ifc_model' = built.ents
          /\ raised' = built.err
          /\ call' = [call EXCEPT !.state = IF built.err = "" THEN "returned"
                                            ELSE "raised",
                                  !.ret = built.ret]
    /\ printed' = printed \o unsupported_report(call.prop_details, generate_demo)
    /\ UNCHANGED <<generate_demo, property_sets, product_data, object_psets, pc,
                   loaderVars, resolverVars>>

NextSimple == CallSimple

SpecSimple == InitSimple /\ [][NextSimple]_vars

-----------------------------------------------------------------------------
(* Claims about import_as_dict *)

IsPropertyRow(row) == row.SetName = "" /\ RowDetails(row).items # <<>>

\* the block-name cell of the nearest block row before row i ("" if none)
RECURSIVE LastOpened(_, _)
LastOpened(rows, i) ==
    IF i = 0 THEN ""
    ELSE IF rows[i].SetName # "" THEN rows[i].SetName
    ELSE LastOpened(rows, i - 1)

\* the property rows among rows 1..n that follow the last row opening
\* `name` and belong to it (no other block was opened in between)
RECURSIVE RowsOfBlock(_, _, _)
RowsOfBlock(rows, n, name) ==
    IF n = 0 THEN <<>>
    ELSE IF rows[n].SetName = name THEN <<>>
    ELSE IF IsPropertyRow(rows[n]) /\ LastOpened(rows, n) = name
         THEN Append(RowsOfBlock(rows, n - 1, name), RowDetails(rows[n]))
         ELSE RowsOfBlock(rows, n - 1, name)

PropertiesOf(d, name) ==
    IF HasKey(d, name) /\ HasKey(DictGet(d, name), "Properties")
    THEN DictGet(DictGet(d, name), "Properties").items
    ELSE <<>>

\* C3: every property row read so far was appended to the property list of
\* the most recently opened block, and each block's list holds the rows
\* read for it since it was (last) opened, in CSV order.
C3_RowsGoToMostRecentBlock ==
    (load_state \in {"loading", "returned"}) =>
        \A i \in 1..Len(lca_dict.items) :
            LET name == lca_dict.items[i].key IN
            PropertiesOf(lca_dict, name) = RowsOfBlock(csv_rows, row_idx - 1, name)

-----------------------------------------------------------------------------
(* Claims about find_value_by_guid *)

IsMatch(m, g) == m.k = "dict" /\ HasKey(m, "guid") /\ DictGet(m, "guid") = g

\* the mappings of a data source in depth-first order: a mapping before the
\* mappings below it, entries and elements in their own order
RECURSIVE Mappings(_)
RECURSIVE MappingsOfItems(_, _)
MappingsOfItems(items, i) ==
    IF i > Len(items) THEN <<>>
    ELSE Mappings(items[i]) \o MappingsOfItems(items, i + 1)
Mappings(d) ==
    IF d.k = "dict"
    THEN <<d>> \o MappingsOfItems([i \in 1..Len(d.items) |-> d.items[i].val], 1)
    ELSE IF d.k = "list" THEN MappingsOfItems(d.items, 1)
    ELSE <<>>

Matching(d, g) == SelectSeq(Mappings(d), LAMBDA m : IsMatch(m, g))

\* C4: called on a mapping whose "guid" entry equals the identifier, the
\* resolver returns that mapping's own value at the requested key (None if
\* absent), whatever else the mapping holds and in whatever order.
C4_MatchedMappingAnswers ==
    (resolver_state = "returned" /\ IsMatch(data, guid)) =>
        found_value = DictGet(data, return_key)

\* C5: the resolver returns the requested value of the first mapping, in
\* depth-first order, whose "guid" equals the identifier (None if that
\* mapping has no such key), and None when no mapping matches.
C5_FirstMatchDepthFirst ==
    resolver_state = "returned" =>
        found_value = IF Matching(data, guid) = <<>> THEN None
                      ELSE DictGet(Matching(data, guid)[1], return_key)

-----------------------------------------------------------------------------
(* Claims about the builders and main *)

Range(s) == {s[i] : i \in 1..Len(s)}

\* every property the schemas of the model declare, nested ones included
SchemaProps ==
    PropPool \cup UNION {Range(complex_props[c].Properties) :
                            c \in DOMAIN complex_props}

\* the enumeration name the schema gives the enumerated property `name`
EnumerationReferenceOf(name) ==
    (CHOOSE p \in SchemaProps :
        p.PropertyName = name /\ p.IFCType = "IfcPropertyEnumeratedValue"
    ).EnumerationReference

\* C1: the model holds at most one enumeration node per enumeration name,
\* and every enumerated-value node, nested in a complex property or not,
\* points at the one enumeration node that carries the name its schema
\* entry references.
C1_OneEnumerationPerName ==
    /\ \A e1, e2 \in by_type(ifc_model, "IfcPropertyEnumeration") :
          ifc_model[e1].Name = ifc_model[e2].Name => e1 = e2
    /\ \A v \in by_type(ifc_model, "IfcPropertyEnumeratedValue") :
          /\ ifc_model[v].EnumerationReference
                \in by_type(ifc_model, "IfcPropertyEnumeration")
          /\ ifc_model[ifc_model[v].EnumerationReference].Name
                = EnumerationReferenceOf(ifc_model[v].Name)

\* the second builder call for a name found the node of the first: a nested
\* and a top-level enumerated value share one enumeration node, and a
\* second name has a node of its own
C1_Witness ==
    /\ \E v1, v2 \in by_type(ifc_model, "IfcPropertyEnumeratedValue") :
          /\ v1 # v2
          /\ ifc_model[v1].Name = "Kind"
          /\ ifc_model[v2].Name = "Scenario"
          /\ ifc_model[v1].EnumerationReference
                = ifc_model[v2].EnumerationReference
    /\ \E v3 \in by_type(ifc_model, "IfcPropertyEnumeratedValue") :
          ifc_model[v3].Name = "Phase"

\* C2: the model holds at most one table-column node per column name and
\* at most one cross-reference node per (type, attribute, target) triple.
C2_OneColumnAndReferencePerKey ==
    /\ \A c1, c2 \in by_type(ifc_model, "IfcTableColumn") :
          ifc_model[c1].Name = ifc_model[c2].Name => c1 = c2
    /\ \A r1, r2 \in by_type(ifc_model, "IfcReference") :
          EntRefKey(ifc_model[r1]) = EntRefKey(ifc_model[r2]) => r1 = r2

\* C6: no numeric parse failure leaves a builder: the run never ends with
\* a ValueError.
C6_ParseFailureNeverPropagates == raised # "ValueError"

\* C7: in data mode, with a schema that uses every builder and whatever the
\* data source holds or lacks, no builder call raises.
C7_DataModeNeverRaises ==
    (~generate_demo /\ property_sets = SchemaFull) => raised = ""

\* the raw value the data source (or demo mode) gives the cell of a row
ResolvedCell(row, col_name) ==
    IF generate_demo THEN Int_(0)
    ELSE find_value_by_guid(
             find_value_by_guid(product_data, Str(<<row.ISO22057GUID>>),
                                "values"),
             Str(<<ColumnDef(col_name).ISO22057GUID>>), "value")

\* the schema rows of a table that have indicator values
ResolvableRows(rows) ==
    SelectSeq(rows, LAMBDA row :
        generate_demo
        \/ Truthy(find_value_by_guid(product_data, Str(<<row.ISO22057GUID>>),
                                     "values")))

\* a cell that holds the "NaN" sentinel for a value not found, and
\* otherwise the found value: the number it is or spells in the row's
\* type, or its text when it spells no number
Carries(cell, raw_value, data_type) ==
    CASE raw_value = None -> cell = TypedValue("IfcLabel", Str(<<"NaN">>))
      [] raw_value.k = "int" ->
            cell.type = data_type /\ cell.wrappedValue.n = raw_value.n
      [] raw_value.k = "str" /\ IsNumeral(raw_value.s) ->
            cell.type = data_type
            /\ cell.wrappedValue.n = ParseNat(raw_value.s)
      [] raw_value.k = "str" /\ ~IsNumeral(raw_value.s) ->
            cell = TypedValue("IfcLabel", raw_value)
      [] OTHER -> FALSE

\* the rows of table t are those of the resolvable schema rows, cell for cell
RowsAsResolved(t, rows, applicable) ==
    /\ Len(ifc_model[t].Rows) = Len(rows)
    /\ \A j \in 1..Len(rows) :
          \E cells \in {ifc_model[ifc_model[t].Rows[j]].RowCells} :
             /\ Len(cells) = Len(applicable) + 2
             /\ Len(cells) = Len(ifc_model[t].Columns)
             /\ cells[1] = TypedValue("IfcLabel", Str(<<rows[j].RowName>>))
             /\ cells[2] = TypedValue("IfcLabel", Str(<<rows[j].Unit>>))
             /\ \A i \in 1..Len(applicable) :
                   Carries(cells[i + 2], ResolvedCell(rows[j], applicable[i]),
                           rows[j].DataType)

\* C8: every row of every table has (number of applicable columns + 2)
\* cells, as many as the table has columns; cell 0 is the indicator name,
\* cell 1 the unit, and cell i+2 holds the value resolved for the i-th
\* applicable column, the "NaN" sentinel when none is found; rows and
\* columns stand in schema order and no cell is left out.
C8_RowCellsMatchColumns ==
    \A t \in by_type(ifc_model, "IfcTable") :
       \E applicable \in {applicable_columns_of(generate_demo).cols} :
          /\ [i \in 1..Len(ifc_model[t].Columns) |->
                 ifc_model[ifc_model[t].Columns[i]].Name]
                = <<<<"Indicator">>, <<"Unit">>>> \o applicable
          /\ RowsAsResolved(t,
                 ResolvableRows(DictGet(tablerows,
                                        ifc_model[t].Name[1]).Properties),
                 applicable)

\* a data-mode row with a cell that was not found next to one that was
C8_Witness ==
    /\ ~generate_demo
    /\ \E r \in by_type(ifc_model, "IfcTableRow") :
          \E i, j \in 3..Len(ifc_model[r].RowCells) :
             /\ ifc_model[r].RowCells[i] = TypedValue("IfcLabel", Str(<<"NaN">>))
             /\ ifc_model[r].RowCells[j].type = "IfcReal"
             /\ ifc_model[r].RowCells[j].wrappedValue = Float_(5)

\* the places of node n in the property lists of the sets
Places(n) ==
    {sp \in by_type(ifc_model, "IfcPropertySet") \X (1..Len(ifc_model)) :
        /\ sp[2] <= Len(ifc_model[sp[1]].HasProperties)
        /\ ifc_model[sp[1]].HasProperties[sp[2]] = n}

\* n is a constituent of a complex property
IsNested(n) ==
    \E c \in by_type(ifc_model, "IfcComplexProperty") :
       n \in Range(ifc_model[c].HasProperties)

\* the schema entries main has passed that name the complex property `name`
PassedEntries(name) ==
    UNION {{<<k, i>> : i \in {i \in 1..Len(property_sets.items[k].val.Properties) :
                /\ property_sets.items[k].val.Properties[i].PropertyName = name
                /\ property_sets.items[k].val.Properties[i].IFCType
                      = "IfcComplexProperty"
                /\ (k < pc.set \/ (k = pc.set /\ i < pc.prop))}} :
           k \in 1..Len(property_sets.items)}

\* C9 as stated: no single-value, list-value or complex node is in the
\* property list of more than one set or more than once in a set, and a
\* constituent of a complex property is in no set's list.
C9_EveryNodeInOneSet ==
    \A n \in by_type(ifc_model, "IfcPropertySingleValue")
             \cup by_type(ifc_model, "IfcPropertyListValue")
             \cup by_type(ifc_model, "IfcComplexProperty") :
       /\ Cardinality(Places(n)) <= 1
       /\ IsNested(n) => Places(n) = {}

\* C9, amended: a single-value or list-value node is in exactly one place
\* of one set's property list, or in none when it is a constituent of a
\* complex property; a complex property has one node per name, and that
\* node stands in the sets' lists once for every schema entry naming it.
C9_SimpleNodesInOneSetComplexShared ==
    /\ \A n \in by_type(ifc_model, "IfcPropertySingleValue")
                \cup by_type(ifc_model, "IfcPropertyListValue") :
          Cardinality(Places(n)) = IF IsNested(n) THEN 0 ELSE 1
    /\ \A c1, c2 \in by_type(ifc_model, "IfcComplexProperty") :
          ifc_model[c1].Name = ifc_model[c2].Name => c1 = c2
    /\ \A c \in by_type(ifc_model, "IfcComplexProperty") :
          Cardinality(Places(c)) = Cardinality(PassedEntries(ifc_model[c].Name))

\* one complex node in the lists of two sets, its single-value constituent
\* in none, beside a single-value node built for a set
C9_Witness ==
    /\ \E c \in by_type(ifc_model, "IfcComplexProperty") :
          /\ \E sp1, sp2 \in Places(c) : sp1[1] # sp2[1]
          /\ \E n \in by_type(ifc_model, "IfcPropertySingleValue") :
                n \in Range(ifc_model[c].HasProperties)
    /\ \E n \in by_type(ifc_model, "IfcPropertySingleValue") :
          ~IsNested(n) /\ Places(n) # {}

\* the sets main has opened, in the order of property_sets
OpenedSets ==
    {id \in 1..Len(ifc_model) :
        ifc_model[id].type \in {"IfcPropertySet", "(removed)"}}

\* the sets main has finished with
ProcessedSets ==
    {id \in OpenedSets : Cardinality({h \in OpenedSets : h <= id}) < pc.set}

Attached(ents, psets, id) ==
    /\ id \in Range(psets)
    /\ ents[id].type = "IfcPropertySet"
    /\ ents[id].HasProperties # <<>>

Discarded(ents, psets, id) ==
    /\ id \notin Range(psets)
    /\ ents[id].type = "(removed)"

\* every processed set is attached with properties or discarded
ProcessedSetsTerminal ==
    \A id \in ProcessedSets :
       Attached(ifc_model, object_psets, id)
       # Discarded(ifc_model, object_psets, id)

\* a processed set stays as it is, and the set a step finishes with is
\* discarded exactly when its build pass gave it no property
ProcessedSetsStay ==
    /\ \A id \in ProcessedSets :
          /\ id \in ProcessedSets'
          /\ ifc_model'[id] = ifc_model[id]
          /\ (id \in Range(object_psets')) = (id \in Range(object_psets))
    /\ \A id \in ProcessedSets' \ ProcessedSets :
          Discarded(ifc_model', object_psets', id)
             = (ifc_model[id].HasProperties = <<>>)

\* C10: once main has processed a set, the set is attached to the object
\* with at least one property, or detached and discarded because it got no
\* property, and it stays so; when the file is written no attached set has
\* an empty property list.
C10_SetsEndAttachedOrDiscarded ==
    /\ [](ProcessedSetsTerminal
          /\ (pc.phase = "done" =>
                 \A id \in Range(object_psets) :
                    Attached(ifc_model, object_psets, id)))
    /\ [][ProcessedSetsStay]_vars

\* a finished run that kept one set and discarded another
C10_Witness ==
    /\ pc.phase = "done"
    /\ \E id \in ProcessedSets : Attached(ifc_model, object_psets, id)
    /\ \E id \in ProcessedSets : Discarded(ifc_model, object_psets, id)

\* main is at a property of the current set
AtProperty ==
    /\ pc.phase = "props"
    /\ pc.prop <= Len(CurrentSet.val.Properties)

\* every constituent builder of the complex property returns nothing
NoConstituentBuilt(complex_prop_name) ==
    /\ complex_prop_name \in DOMAIN complex_props
    /\ \A i \in 1..Len(complex_props[complex_prop_name].Properties) :
          add_simpleproperty(ifc_model, pc.pset,
              complex_props[complex_prop_name].Properties[i],
              generate_demo, TRUE) = R(ifc_model, 0, "")

\* the call of the complex builder for such a property creates nothing,
\* leaves the set's property list as it was and returns normally
EmptyComplexAbandoned ==
    (/\ AtProperty
     /\ CurrentSet.val.Properties[pc.prop].IFCType = "IfcComplexProperty"
     /\ NoConstituentBuilt(CurrentSet.val.Properties[pc.prop].PropertyName))
    => /\ ifc_model' = ifc_model
       /\ raised' = ""
       /\ pc' = [pc EXCEPT !.prop = pc.prop + 1]

\* C11: a complex property whose constituent builders all return nothing
\* is not created: the call adds no entity and leaves the set's property
\* list unchanged, and the model never holds a complex node without
\* constituents.
C11_EmptyComplexNeverCreated ==
    /\ [][EmptyComplexAbandoned]_vars
    /\ [](\A c \in by_type(ifc_model, "IfcComplexProperty") :
             ifc_model[c].HasProperties # <<>>)

\* main has just passed a complex property that came to nothing, in a set
\* that is still empty
C11_Witness ==
    /\ pc.phase = "props"
    /\ pc.prop >= 2
    /\ CurrentSet.val.Properties[pc.prop - 1].IFCType = "IfcComplexProperty"
    /\ by_type(ifc_model, "IfcComplexProperty") = {}
    /\ ifc_model[pc.pset].HasProperties = <<>>
    /\ raised = ""

\* the tabular properties of the schema, in order
TableNames == [i \in 1..Len(tablerows.items) |-> tablerows.items[i].key]

\* the schema rows of all tables
AllTableRows ==
    UNION {Range(tablerows.items[i].val.Properties) :
              i \in 1..Len(tablerows.items)}

\* the tabular property `name` has a row with indicator values
HasRows(name) == ResolvableRows(DictGet(tablerows, name).Properties) # <<>>

\* the entities a step has created
Created(t) == {id \in by_type(ifc_model', t) : id > Len(ifc_model)}

\* main is about to build the tabular properties of the indicator set
AtIndicators ==
    /\ pc.phase = "props"
    /\ pc.prop > Len(CurrentSet.val.Properties)
    /\ CurrentSet.key = IndicatorSet

\* a pass over the tabular properties that returns makes a table and a
\* reference property for those with rows and no other, and appends these
\* reference properties, and nothing else, to the set's property list
TablesOnlyWithRows ==
    (AtIndicators /\ pc'.phase = "finalize")
    => /\ \A n \in Range(TableNames) :
             /\ HasRows(n) = (\E t \in Created("IfcTable") :
                                 ifc_model'[t].Name = <<n, "Table">>)
             /\ HasRows(n) = (\E p \in Created("IfcPropertyReferenceValue") :
                                 ifc_model'[p].Name = n)
       /\ \E names \in {SelectSeq(TableNames, HasRows)} :
             \E list \in {ifc_model'[pc.pset].HasProperties} :
                /\ Len(list) = Len(ifc_model[pc.pset].HasProperties) + Len(names)
                /\ SubSeq(list, 1, Len(ifc_model[pc.pset].HasProperties))
                      = ifc_model[pc.pset].HasProperties
                /\ \A i \in 1..Len(names) :
                      \E p \in {list[Len(ifc_model[pc.pset].HasProperties) + i]} :
                         /\ p \in Created("IfcPropertyReferenceValue")
                         /\ ifc_model'[p].Name = names[i]
                         /\ ifc_model'[ifc_model'[p].PropertyReference].Name
                               = <<names[i], "Table">>

\* no table is without rows, and every row is the row of a schema row whose
\* identifier resolves to indicator values
NoEmptyTableOrRow ==
    /\ \A t \in by_type(ifc_model, "IfcTable") : ifc_model[t].Rows # <<>>
    /\ \A r \in by_type(ifc_model, "IfcTableRow") :
          \E row \in AllTableRows :
             /\ ifc_model[r].RowCells[1]
                   = TypedValue("IfcLabel", Str(<<row.RowName>>))
             /\ ResolvableRows(<<row>>) # <<>>

\* C12: a tabular property whose table comes to zero rows is abandoned: no
\* table node and no reference property are created for it and the set's
\* property list is unchanged by it; a schema row whose identifier resolves
\* to no indicator values gives no row.
C12_TableWithoutRowsAbandoned ==
    /\ [][TablesOnlyWithRows]_vars
    /\ []NoEmptyTableOrRow

\* in data mode the first tabular property was built and the second, which
\* has no resolvable row, was abandoned
C12_Witness ==
    /\ ~generate_demo
    /\ pc.phase = "finalize"
    /\ \E t \in by_type(ifc_model, "IfcTable") :
          ifc_model[t].Name = <<"T1", "Table">>
    /\ ~\E t \in by_type(ifc_model, "IfcTable") :
           ifc_model[t].Name = <<"T2", "Table">>
    /\ Len(ifc_model[pc.pset].HasProperties) = 1

-----------------------------------------------------------------------------
(* Claims about one call of add_simpleproperty *)

\* the empty default of a declared type's kind
KindDefault(data_type) ==
    CASE data_type = "IfcBoolean" -> Bool_(FALSE)
      [] data_type = "IfcInteger" -> Int_(0)
      [] data_type = "IfcReal" -> Float_(0)
      [] data_type = "IfcLabel" -> Str(<<"NaN">>)

\* a piece of text coerced to the declared type's kind
Coerced(data_type, t) ==
    IF t = <<>> THEN KindDefault(data_type)
    ELSE CASE data_type = "IfcBoolean" -> Bool_(lower(t) \in TrueTexts)
           [] data_type = "IfcInteger" -> Int_(ParseNat(t))
           [] data_type = "IfcReal" -> Float_(ParseNat(t))
           [] data_type = "IfcLabel" -> Str(t)

\* the places of ";" in a text, and the n-th of them
Separators(t) == {j \in 1..Len(t) : t[j] = ";"}
NthSeparator(t, n) ==
    CHOOSE j \in Separators(t) : Cardinality({h \in Separators(t) : h <= j}) = n

\* the i-th ";"-separated piece of a text
Piece(t, i) ==
    SubSeq(t,
           IF i = 1 THEN 1 ELSE NthSeparator(t, i - 1) + 1,
           IF i = Cardinality(Separators(t)) + 1 THEN Len(t)
           ELSE NthSeparator(t, i) - 1)

\* the value the data source resolves for the property of the call
CallRawValue ==
    find_value_by_guid(product_data, Str(<<call.prop_details.ISO22057GUID>>),
                       "value")

\* C13: a list-valued property built with no raw input (demo mode) has
\* exactly two elements, each the empty default of the declared kind; one
\* built from raw input has one coerced element per ";"-separated piece,
\* in the order of the pieces.
C13_ListElements ==
    (call.state = "returned"
     /\ call.prop_details.IFCType = "IfcPropertyListValue")
    => IF generate_demo
       THEN /\ call.ret # 0
            /\ ifc_model[call.ret].ListValues
                  = [i \in 1..2 |->
                        TypedValue(call.prop_details.DataType,
                                   KindDefault(call.prop_details.DataType))]
       ELSE call.ret # 0 =>
               ifc_model[call.ret].ListValues
                  = [i \in 1..(Cardinality(Separators(CallRawValue.s)) + 1) |->
                        TypedValue(call.prop_details.DataType,
                                   Coerced(call.prop_details.DataType,
                                           Piece(CallRawValue.s, i)))]

\* a list of two numbers built from the raw text "5;": the empty piece
\* after the separator became the zero default
C13_Witness ==
    /\ call.state = "returned"
    /\ ~generate_demo
    /\ call.prop_details.IFCType = "IfcPropertyListValue"
    /\ call.ret # 0
    /\ ifc_model[call.ret].ListValues
          = <<TypedValue("IfcReal", Float_(5)), TypedValue("IfcReal", Float_(0))>>

\* the shapes add_simpleproperty builds
KnownShapes == {"IfcPropertySingleValue", "IfcPropertyListValue",
                "IfcPropertyEnumeratedValue"}

\* C14: a property of a shape the builders do not know is reported and
\* skipped: the call returns nothing without raising, prints the line
\* that names the unsupported shape, and leaves the model and the set's
\* property list as they were, in demo mode and in data mode, nested or
\* not.
C14_UnsupportedReportedAndSkipped ==
    (call.state # "call" /\ call.prop_details.IFCType \notin KnownShapes)
    => /\ call.state = "returned"
       /\ call.ret = 0
       /\ ifc_model = CallModel
       /\ printed = <<<<"Unsupported IFCType: ", call.prop_details.IFCType>>>>

-----------------------------------------------------------------------------
(* Claims about the failure of import_as_dict *)

\* a row without any non-empty cell
IsBlankRow(row) == row.SetName = "" /\ RowDetails(row).items = <<>>

\* row i is a property row and only blank rows come before it
IsOrphanRow(i) ==
    /\ IsPropertyRow(csv_rows[i])
    /\ \A h \in 1..(i - 1) : IsBlankRow(csv_rows[h])

\* C15 as stated: when the block-name cell of the first row is empty, the
\* load fails on that row and returns no mapping.
C15_FirstRowWithoutBlockFails ==
    (csv_rows # <<>> /\ csv_rows[1].SetName = "")
    => /\ load_state # "returned"
       /\ row_idx > 1 => load_state = "IndexError"

\* C15, amended: the load fails, with nothing loaded and no mapping
\* returned, on the first row that has a non-empty cell when that row has
\* no block name; rows without any non-empty cell are passed over, also
\* when they come first.
C15_PropertyRowBeforeAnyBlockFails ==
    /\ \A i \in 1..Len(csv_rows) :
          IsOrphanRow(i)
          => /\ load_state # "returned"
             /\ row_idx <= i => load_state = "loading"
             /\ row_idx > i =>
                   load_state = "IndexError" /\ lca_dict = Dict(<<>>)
                   /\ row_idx = i + 1
    /\ (\A i \in 1..Len(csv_rows) : ~IsOrphanRow(i))
          => load_state \in {"loading", "returned"}

\* the load has failed on its second row, a property row after a first
\* row without any non-empty cell
C15_Witness ==
    /\ load_state = "IndexError"
    /\ row_idx = 3
    /\ IsBlankRow(csv_rows[1])
    /\ IsPropertyRow(csv_rows[2])

\* the schema entry of the call has an identifier and the resolver returns
\* a truthy value for it
CallResolved ==
    /\ call.prop_details.ISO22057GUID # ""
    /\ Truthy(CallRawValue)

\* C16: in data mode a simple property is built only when its schema entry
\* has an identifier for which the resolver returns a truthy value; in
\* every other case the call returns nothing and leaves the entities of
\* the model, the set's property list among them, as they were.
C16_BuiltOnlyWhenResolved ==
    (~generate_demo /\ call.state # "call")
    => /\ call.ret # 0 => CallResolved
       /\ ~CallResolved
             => /\ call.state = "returned"
                /\ call.ret = 0
                /\ ifc_model = CallModel

\* a single-value property whose identifier resolves to 0 was not built
C16_Witness ==
    /\ ~generate_demo
    /\ call.state = "returned"
    /\ call.prop_details.IFCType = "IfcPropertySingleValue"
    /\ call.prop_details.ISO22057GUID # ""
    /\ CallRawValue = Int_(0)
    /\ call.ret = 0
    /\ ifc_model = CallModel

=============================================================================
